---- MODULE Spec2Model ----
(***************************************************************************)
(* Tic-tac-toe against a minimax engine (src/src/main.rs).                 *)
(*                                                                         *)
(* A Board is the record [field, current_move, computer_tile, player_tile] *)
(* of the struct Board.  Every method taking &mut self is an operator from *)
(* a board to the board it leaves behind (plus its return value), so that  *)
(* the mutate-then-revert discipline of the search is part of the model.   *)
(***************************************************************************)
EXTENDS Integers, Sequences, FiniteSets, TLC

VARIABLES
    mode,        \* which program runs: "main", "test" (pc_vs_pc_*), "unit" (one call on a board)
    board,       \* the Board
    pc,          \* position of the running program
    iter,        \* loop counter of `for _ in 0..8` in the pc_vs_pc tests
    game_result, \* value of the last analyse() taken by the driver or the test
    pre,         \* the Board as it was when the last operation was called
    ret,         \* what the last operation returned
    panicked,    \* a panic!() was raised
    first_move,  \* `first_move` of main: the side that was given the first turn
    search_depth,  \* `depth` of the call of minimax that is running
    search_is_max  \* `is_max` of the call of minimax that is running

vars == <<mode, board, pc, iter, game_result, pre, ret, panicked,
          first_move, search_depth, search_is_max>>

\* ---------------------------------------------------------------- bounds
\* Largest row / column number a caller of check_move tries (2 is the last
\* one in range).
MaxCoord == 3

\* Largest `depth` a direct call of minimax or minimax_player is given.
MaxDepth == 1

\* Largest number of Free cells of a board on which minimax or minimax_player
\* is called directly.
MaxSearchFree == 4

\* Largest number of Free cells of a board on which one operation is called
\* directly (the boards of the unit tests have 2).
MaxFree == 6

\* ---------------------------------------------------------------- types
X == "X"
O == "O"
Free == "Free"
Tile == {X, O, Free}

Player == "Player"
Computer == "Computer"
Move == {Player, Computer}

Win(m) == <<"Win", m>>
Draw == <<"Draw">>
None == <<"None">>

Idx == 0..2
Cells == 0..8
Row(k) == k \div 3
Col(k) == k % 3

\* vec![vec![Tile::Free; 3]; 3]
EmptyField == [i \in Idx |-> [j \in Idx |-> Free]]

\* ---------------------------------------------------------------- Board
\* has_free_tiles looking at the first row only
has_free_tiles_first_row(b) == \E j \in Idx : b.field[0][j] = Free

has_free_tiles(b) == \E i \in Idx : \E j \in Idx : b.field[i][j] = Free

\* analyse naming the owner of the completed line's tile as the winner
analyse_by_tile(b) ==
    LET owner(tile) == IF tile = b.computer_tile THEN Computer ELSE Player IN
    IF \E row \in Idx :
          /\ b.field[row][0] = b.field[row][1]
          /\ b.field[row][1] = b.field[row][2]
          /\ b.field[row][0] # Free
    THEN Win(owner(b.field[(CHOOSE row \in Idx :
                              /\ b.field[row][0] = b.field[row][1]
                              /\ b.field[row][1] = b.field[row][2]
                              /\ b.field[row][0] # Free)][0]))
    ELSE IF \E col \in Idx :
          /\ b.field[0][col] = b.field[1][col]
          /\ b.field[1][col] = b.field[2][col]
          /\ b.field[0][col] # Free
    THEN Win(owner(b.field[0][CHOOSE col \in Idx :
                              /\ b.field[0][col] = b.field[1][col]
                              /\ b.field[1][col] = b.field[2][col]
                              /\ b.field[0][col] # Free]))
    ELSE IF /\ b.field[0][0] = b.field[1][1]
            /\ b.field[1][1] = b.field[2][2]
            /\ b.field[0][0] # Free
    THEN Win(owner(b.field[1][1]))
    ELSE IF /\ b.field[0][2] = b.field[1][1]
            /\ b.field[1][1] = b.field[2][0]
            /\ b.field[0][2] # Free
    THEN Win(owner(b.field[1][1]))
    ELSE IF has_free_tiles(b) THEN None ELSE Draw

\* analyse asking for a full grid before it looks for a line
analyse_full_first(b) ==
    IF ~has_free_tiles(b) THEN Draw
    ELSE IF \/ \E row \in Idx :
                 /\ b.field[row][0] = b.field[row][1]
                 /\ b.field[row][1] = b.field[row][2]
                 /\ b.field[row][0] # Free
            \/ \E col \in Idx :
                 /\ b.field[0][col] = b.field[1][col]
                 /\ b.field[1][col] = b.field[2][col]
                 /\ b.field[0][col] # Free
            \/ /\ b.field[0][0] = b.field[1][1]
               /\ b.field[1][1] = b.field[2][2]
               /\ b.field[0][0] # Free
            \/ /\ b.field[0][2] = b.field[1][1]
               /\ b.field[1][1] = b.field[2][0]
               /\ b.field[0][2] # Free
    THEN Win(b.current_move)
    ELSE None

analyse(b) ==
    IF \E row \in Idx :
          /\ b.field[row][0] = b.field[row][1]
          /\ b.field[row][1] = b.field[row][2]
          /\ b.field[row][0] # Free
    THEN Win(b.current_move)
    ELSE IF \E col \in Idx :
          /\ b.field[0][col] = b.field[1][col]
          /\ b.field[1][col] = b.field[2][col]
          /\ b.field[0][col] # Free
    THEN Win(b.current_move)
    ELSE IF /\ b.field[0][0] = b.field[1][1]
            /\ b.field[1][1] = b.field[2][2]
            /\ b.field[0][0] # Free
    THEN Win(b.current_move)
    ELSE IF /\ b.field[0][2] = b.field[1][1]
            /\ b.field[1][1] = b.field[2][0]
            /\ b.field[0][2] # Free
    THEN Win(b.current_move)
    ELSE IF has_free_tiles(b) THEN None ELSE Draw

\* Result<(usize, usize), &str>
Ok(pos) == <<"Ok", pos>>
Err(msg) == <<"Err", msg>>
ErrFree == "Choose free tile!"
ErrBounds == "Place tile in bounds (0 <= col <= 2, 0 <= row <= 2)!"

\* check_move without the test for a Free cell
check_move_any(b, pos) ==
    IF pos[1] <= 2 /\ pos[2] <= 2 THEN Ok(pos) ELSE Err(ErrBounds)

check_move(b, pos) ==
    IF pos[1] <= 2 /\ pos[2] <= 2
    THEN IF b.field[pos[1]][pos[2]] = Free THEN Ok(pos) ELSE Err(ErrFree)
    ELSE Err(ErrBounds)

make_move(b, pos, tile) == [b EXCEPT !.field[pos[1]][pos[2]] = tile]

\* change_player that leaves the turn where it is
change_player_stay(b) == b

change_player(b) ==
    [b EXCEPT !.current_move = IF @ = Player THEN Computer ELSE Player]

\* ---------------------------------------------------------------- search for the computer
\* evaluate with the two scores exchanged
evaluate_swapped(b) ==
    LET a == analyse(b) IN
    IF a = Win(Computer) THEN -10
    ELSE IF a = Win(Player) THEN 10
    ELSE 0

\* evaluate that does not see a win of the player
evaluate_blind(b) ==
    LET a == analyse(b) IN
    IF a = Win(Computer) THEN 10 ELSE 0

evaluate(b) ==
    LET a == analyse(b) IN
    IF a = Win(Computer) THEN 10
    ELSE IF a = Win(Player) THEN -10
    ELSE 0

\* the branch's mark without the change_player that follows it
place_same_turn(b, i, j, tile) == [b EXCEPT !.field[i][j] = tile]

\* cmp::max where cmp::min is meant
min_as_max(a, c) == IF c > a THEN c ELSE a

\* cmp::max, cmp::min
max(a, c) == IF c > a THEN c ELSE a
min(a, c) == IF c < a THEN c ELSE a

\* `self.field[i][j] = tile; self.change_player();` before a branch of the search
place(b, i, j, tile) == change_player([b EXCEPT !.field[i][j] = tile])

\* the branch's mark taken back without the change_player that follows it
unplace_same_turn(b, i, j) == [b EXCEPT !.field[i][j] = Free]

\* `self.field[i][j] = Tile::Free; self.change_player();` after a branch of the search
unplace(b, i, j) == change_player([b EXCEPT !.field[i][j] = Free])

\* the score of a won or lost position without the depth
score_only(score, depth) == score

\* `return score - depth` and `return score + depth` of minimax and
\* minimax_player
win_score(score, depth) == score - depth
loss_score(score, depth) == score + depth

RECURSIVE minimax(_, _, _)

\* The body of the loops of minimax at cell (i, j): s holds the board and the
\* running `best` before it, the result holds them after it.
minimax_branch(s, i, j, depth, is_max) ==
    IF s.board.field[i][j] = Free
    THEN CHOOSE t \in
            {[board |-> unplace(r.board, i, j),
              val |-> IF is_max THEN max(s.val, r.val) ELSE min(s.val, r.val)] :
                r \in {minimax(place(s.board, i, j,
                                     IF is_max THEN s.board.computer_tile ELSE s.board.player_tile),
                               depth + 1, ~is_max)}} : TRUE
    ELSE s

\* `for j in 0..3` of minimax, in row i
minimax_row(s, i, depth, is_max) ==
    CHOOSE s3 \in {minimax_branch(s2, i, 2, depth, is_max) :
                      s2 \in {minimax_branch(s1, i, 1, depth, is_max) :
                                s1 \in {minimax_branch(s, i, 0, depth, is_max)}}} : TRUE

\* The search returns the board along with the score, so that what it leaves
\* on the grid is part of the result.
minimax(b, depth, is_max) ==
    LET score == evaluate(b) IN
    IF score = 10 THEN [board |-> b, val |-> win_score(score, depth)]
    ELSE IF score = -10 THEN [board |-> b, val |-> loss_score(score, depth)]
    ELSE IF ~has_free_tiles(b) THEN [board |-> b, val |-> 0]
    ELSE CHOOSE s3 \in {minimax_row(s2, 2, depth, is_max) :
                           s2 \in {minimax_row(s1, 1, depth, is_max) :
                                     s1 \in {minimax_row([board |-> b,
                                               val |-> IF is_max THEN -1000 ELSE 1000],
                                              0, depth, is_max)}}} : TRUE

\* `>=` and `<` where `>` is meant
improves_or_equal(move_val, best_val) == move_val >= best_val
improves_reversed(move_val, best_val) == move_val < best_val

\* `if move_val > best_val` of computer_move and computer_player_move
improves(move_val, best_val) == move_val > best_val

\* the branch's mark is left on the grid
undo_move_skipped(b, i, j) == b

\* `self.field[i][j] = Tile::Free` of computer_move and computer_player_move,
\* once the branch is scored
undo_move(b, i, j) == [b EXCEPT !.field[i][j] = Free]

\* The body of the loops of computer_move at cell (i, j).  vals lists
\* <<3 * i + j, move_val>> for every branch tried so far, in the order of the
\* scan.
computer_move_branch(s, i, j) ==
    IF s.board.field[i][j] = Free
    THEN CHOOSE t \in
            {[board |-> undo_move(r.board, i, j),
              best_val |-> IF improves(r.val, s.best_val) THEN r.val ELSE s.best_val,
              best_move |-> IF improves(r.val, s.best_val) THEN <<i, j>> ELSE s.best_move,
              vals |-> Append(s.vals, <<3 * i + j, r.val>>)] :
                r \in {minimax([s.board EXCEPT !.field[i][j] = s.board.computer_tile],
                               0, FALSE)}} : TRUE
    ELSE s

\* `for j in 0..3` of computer_move, in row i
computer_move_row(s, i) ==
    CHOOSE s3 \in {computer_move_branch(s2, i, 2) :
                      s2 \in {computer_move_branch(s1, i, 1) :
                                s1 \in {computer_move_branch(s, i, 0)}}} : TRUE

computer_move(b) ==
    IF ~has_free_tiles(b)
    THEN [panic |-> TRUE, board |-> b, best_move |-> <<0, 0>>, vals |-> <<>>]
    ELSE LET s0 == [board |-> b, best_val |-> -1000, best_move |-> <<0, 0>>, vals |-> <<>>]
             r == CHOOSE s3 \in {computer_move_row(s2, 2) :
                               s2 \in {computer_move_row(s1, 1) :
                                         s1 \in {computer_move_row(s0, 0)}}} : TRUE
         IN  [panic |-> FALSE,
              board |-> make_move(r.board, r.best_move, r.board.computer_tile),
              best_move |-> r.best_move,
              vals |-> r.vals]

\* ---------------------------------------------------------------- search for the player
\* evaluate_player left as a copy of evaluate
evaluate_player_copy(b) == evaluate(b)

evaluate_player(b) ==
    LET a == analyse(b) IN
    IF a = Win(Player) THEN 10
    ELSE IF a = Win(Computer) THEN -10
    ELSE 0

RECURSIVE minimax_player(_, _, _)

minimax_player_branch(s, i, j, depth, is_max) ==
    IF s.board.field[i][j] = Free
    THEN CHOOSE t \in
            {[board |-> unplace(r.board, i, j),
              val |-> IF is_max THEN max(s.val, r.val) ELSE min(s.val, r.val)] :
                r \in {minimax_player(place(s.board, i, j,
                                     IF is_max THEN s.board.player_tile ELSE s.board.computer_tile),
                               depth + 1, ~is_max)}} : TRUE
    ELSE s

\* `for j in 0..3` of minimax_player, in row i
minimax_player_row(s, i, depth, is_max) ==
    CHOOSE s3 \in {minimax_player_branch(s2, i, 2, depth, is_max) :
                      s2 \in {minimax_player_branch(s1, i, 1, depth, is_max) :
                                s1 \in {minimax_player_branch(s, i, 0, depth, is_max)}}} : TRUE

minimax_player(b, depth, is_max) ==
    LET score == evaluate_player(b) IN
    IF score = 10 THEN [board |-> b, val |-> win_score(score, depth)]
    ELSE IF score = -10 THEN [board |-> b, val |-> loss_score(score, depth)]
    ELSE IF ~has_free_tiles(b) THEN [board |-> b, val |-> 0]
    ELSE CHOOSE s3 \in {minimax_player_row(s2, 2, depth, is_max) :
                           s2 \in {minimax_player_row(s1, 1, depth, is_max) :
                                     s1 \in {minimax_player_row([board |-> b,
                                               val |-> IF is_max THEN -1000 ELSE 1000],
                                              0, depth, is_max)}}} : TRUE

computer_player_move_branch(s, i, j) ==
    IF s.board.field[i][j] = Free
    THEN CHOOSE t \in
            {[board |-> undo_move(r.board, i, j),
              best_val |-> IF improves(r.val, s.best_val) THEN r.val ELSE s.best_val,
              best_move |-> IF improves(r.val, s.best_val) THEN <<i, j>> ELSE s.best_move,
              vals |-> Append(s.vals, <<3 * i + j, r.val>>)] :
                r \in {minimax_player([s.board EXCEPT !.field[i][j] = s.board.player_tile],
                               0, FALSE)}} : TRUE
    ELSE s

\* `for j in 0..3` of computer_player_move, in row i
computer_player_move_row(s, i) ==
    CHOOSE s3 \in {computer_player_move_branch(s2, i, 2) :
                      s2 \in {computer_player_move_branch(s1, i, 1) :
                                s1 \in {computer_player_move_branch(s, i, 0)}}} : TRUE

computer_player_move(b) ==
    IF ~has_free_tiles(b)
    THEN [panic |-> TRUE, board |-> b, best_move |-> <<0, 0>>, vals |-> <<>>]
    ELSE LET s0 == [board |-> b, best_val |-> -1000, best_move |-> <<0, 0>>, vals |-> <<>>]
             r == CHOOSE s3 \in {computer_player_move_row(s2, 2) :
                               s2 \in {computer_player_move_row(s1, 1) :
                                         s1 \in {computer_player_move_row(s0, 0)}}} : TRUE
         IN  [panic |-> FALSE,
              board |-> make_move(r.board, r.best_move, r.board.player_tile),
              best_move |-> r.best_move,
              vals |-> r.vals]

\* ---------------------------------------------------------------- main
\* Board { field: vec![vec![Tile::Free; 3]; 3], current_move: first_move,
\*         computer_tile: Tile::X, player_tile: Tile::O }
NewBoard(first) ==
    [field |-> EmptyField, current_move |-> first,
     computer_tile |-> X, player_tile |-> O]

NoRet == [op |-> "none"]

InitMain ==
    /\ mode = "main"
    /\ first_move \in Move
    /\ board = NewBoard(first_move)
    /\ pc = "move"
    /\ iter = 0
    /\ game_result = None
    /\ pre = board
    /\ ret = NoRet
    /\ panicked = FALSE
    /\ search_depth = 0
    /\ search_is_max = FALSE

\* Move::Player arm: one line read from stdin that parse_pos rejects.
MainPlayerMalformed ==
    /\ mode = "main" /\ pc = "move" /\ board.current_move = Player
    /\ pre' = board
    /\ ret' = [op |-> "parse_pos", res |-> None]
    /\ UNCHANGED <<mode, first_move, search_depth, search_is_max, board, pc, iter, game_result, panicked>>

\* Move::Player arm: one line that parses to (row, col): check_move, then
\* either make_move, or the error is printed and the loop reads again.
MainPlayerInput ==
    /\ mode = "main" /\ pc = "move" /\ board.current_move = Player
    /\ \E row \in 0..MaxCoord : \E col \in 0..MaxCoord :
       \E res \in {check_move(board, <<row, col>>)} :
          /\ pre' = board
          /\ ret' = [op |-> "check_move", pos |-> <<row, col>>, res |-> res]
          /\ IF res[1] = "Ok"
             THEN /\ board' = make_move(board, res[2], board.player_tile)
                  /\ pc' = "analyse"
             ELSE UNCHANGED <<board, pc>>
    /\ UNCHANGED <<mode, first_move, search_depth, search_is_max, iter, game_result, panicked>>

\* Move::Computer arm.
MainComputerMove ==
    /\ mode = "main" /\ pc = "move" /\ board.current_move = Computer
    /\ \E r \in {computer_move(board)} :
       /\ pre' = board
       /\ ret' = [op |-> "computer_move", best_move |-> r.best_move, vals |-> r.vals]
       /\ board' = r.board
       /\ panicked' = r.panic
       /\ pc' = IF r.panic THEN "panic" ELSE "analyse"
    /\ UNCHANGED <<mode, first_move, search_depth, search_is_max, iter, game_result>>

\* `break match board.analyse() { ... None => { board.change_player(); continue } }`
MainAnalyse ==
    /\ mode = "main" /\ pc = "analyse"
    /\ \E a \in {analyse(board)} :
       /\ game_result' = a
       /\ IF a = None
          THEN /\ board' = change_player(board)
               /\ pc' = "move"
          ELSE /\ board' = board
               /\ pc' = "done"
    /\ UNCHANGED <<mode, first_move, search_depth, search_is_max, iter, pre, ret, panicked>>

NextMain == MainPlayerMalformed \/ MainPlayerInput \/ MainComputerMove \/ MainAnalyse

SpecMain == InitMain /\ [][NextMain]_vars

\* ---------------------------------------------------------------- main, inside the search
\* The positions a search of the driver's computer_move passes through, one
\* call of minimax at a time: mode "search" follows one path of the recursion
\* downwards; `pre` keeps the board computer_move was called on and ret.pos
\* the cell (i, j) of the mark placed last.

\* computer_move, one turn of its loops up to the call `self.minimax(0, false)`
SearchEnter ==
    /\ mode = "main" /\ pc = "move" /\ board.current_move = Computer
    /\ has_free_tiles(board)
    /\ \E i \in Idx : \E j \in Idx :
          /\ board.field[i][j] = Free
          /\ board' = [board EXCEPT !.field[i][j] = board.computer_tile]
          /\ ret' = [op |-> "minimax", pos |-> <<i, j>>]
    /\ mode' = "search"
    /\ pc' = "minimax"
    /\ pre' = board
    /\ search_depth' = 0
    /\ search_is_max' = FALSE
    /\ UNCHANGED <<iter, game_result, panicked, first_move>>

\* minimax past its three early returns, one turn of its loops up to the
\* recursive call `self.minimax(depth + 1, !is_max)`
SearchStep ==
    /\ mode = "search" /\ pc = "minimax"
    /\ evaluate(board) = 0
    /\ has_free_tiles(board)
    /\ \E i \in Idx : \E j \in Idx :
          /\ board.field[i][j] = Free
          /\ board' = place(board, i, j, IF search_is_max THEN board.computer_tile
                                                          ELSE board.player_tile)
          /\ ret' = [op |-> "minimax", pos |-> <<i, j>>]
    /\ search_depth' = search_depth + 1
    /\ search_is_max' = ~search_is_max
    /\ UNCHANGED <<mode, pc, iter, game_result, pre, panicked, first_move>>

NextSearch == NextMain \/ SearchEnter \/ SearchStep

SpecSearch == InitMain /\ [][NextSearch]_vars

\* a line of the human that check_move accepts
MainPlayerLegal == pc' = "analyse" /\ MainPlayerInput

\* the Computer arm, told by where it starts and where it leaves the driver:
\* computer_move() has returned or has panicked
MainComputerReturns ==
    /\ mode = "main" /\ pc = "move" /\ board.current_move = Computer
    /\ mode' = "main"
    /\ pc' \in {"analyse", "panic"}

\* The driver runs on: the computer's arm and analyse() are plain calls that
\* return, and the human, asked again after every rejected line, enters a
\* legal cell in the end.
SpecSearchLive ==
    /\ SpecSearch
    /\ WF_<<mode, pc>>(MainComputerReturns)
    /\ WF_vars(MainAnalyse)
    /\ WF_vars(MainPlayerLegal)

\* ---------------------------------------------------------------- tests pc_vs_pc_1move_by_*
\* One game of pc_vs_pc_1move_by_player (who = Player) or
\* pc_vs_pc_1move_by_computer (who = Computer), `who` being kept in first_move:
\* the first mark is already on the grid and the other side is to move.
InitTest ==
    /\ mode = "test"
    /\ first_move \in Move
    /\ \E first_cell \in Cells :
          board = [field |-> [EmptyField EXCEPT ![first_cell \div 3][first_cell % 3] =
                                                  IF first_move = Player THEN O ELSE X],
                   current_move |-> IF first_move = Player THEN Computer ELSE Player,
                   computer_tile |-> X, player_tile |-> O]
    /\ pc = "loop"
    /\ iter = 0
    /\ game_result = None
    /\ pre = board
    /\ ret = NoRet
    /\ panicked = FALSE
    /\ search_depth = 0
    /\ search_is_max = FALSE

\* One turn of `for _ in 0..8`, Move::Player arm, then change_player.
TestPlayerTurn ==
    /\ mode = "test" /\ pc = "loop" /\ iter < 8 /\ board.current_move = Player
    /\ \E r \in {computer_player_move(board)} :
       /\ pre' = board
       /\ ret' = [op |-> "computer_player_move", best_move |-> r.best_move, vals |-> r.vals]
       /\ panicked' = r.panic
       /\ IF r.panic
          THEN /\ board' = r.board /\ pc' = "panic" /\ iter' = iter
          ELSE /\ board' = change_player(r.board) /\ pc' = pc /\ iter' = iter + 1
    /\ UNCHANGED <<mode, first_move, search_depth, search_is_max, game_result>>

\* One turn of `for _ in 0..8`, Move::Computer arm, then change_player.
TestComputerTurn ==
    /\ mode = "test" /\ pc = "loop" /\ iter < 8 /\ board.current_move = Computer
    /\ \E r \in {computer_move(board)} :
       /\ pre' = board
       /\ ret' = [op |-> "computer_move", best_move |-> r.best_move, vals |-> r.vals]
       /\ panicked' = r.panic
       /\ IF r.panic
          THEN /\ board' = r.board /\ pc' = "panic" /\ iter' = iter
          ELSE /\ board' = change_player(r.board) /\ pc' = pc /\ iter' = iter + 1
    /\ UNCHANGED <<mode, first_move, search_depth, search_is_max, game_result>>

\* `results.push(board.analyse().unwrap())`
TestAnalyse ==
    /\ mode = "test" /\ pc = "loop" /\ iter = 8
    /\ \E a \in {analyse(board)} :
       /\ game_result' = a
       /\ panicked' = (a = None)
       /\ pc' = IF a = None THEN "panic" ELSE "done"
    /\ UNCHANGED <<mode, first_move, search_depth, search_is_max, board, iter, pre, ret>>

NextTest == TestPlayerTurn \/ TestComputerTurn \/ TestAnalyse

SpecTest == InitTest /\ [][NextTest]_vars

\* ---------------------------------------------------------------- one call on a given board
\* (tests test_win_move and test_block_move build a Board literal and call
\* computer_move on it)
FieldAt(b, k) == b.field[Row(k)][Col(k)]
FreeCells(b) == {k \in Cells : FieldAt(b, k) = Free}
Count(b, tile) == Cardinality({k \in Cells : FieldAt(b, k) = tile})

\* It is `side`'s turn on b under alternating play: the other side has as
\* many marks, or one more.
ToMove(b, side) ==
    LET mine == IF side = Computer THEN b.computer_tile ELSE b.player_tile
        theirs == IF side = Computer THEN b.player_tile ELSE b.computer_tile
    IN  Count(b, theirs) - Count(b, mine) \in {0, 1}

UnitBoards ==
    {b \in [field : [Idx -> [Idx -> Tile]], current_move : Move,
            computer_tile : {X}, player_tile : {O}] :
        /\ Cardinality(FreeCells(b)) <= MaxFree
        /\ Count(b, X) - Count(b, O) \in {-1, 0, 1}}

InitUnit ==
    /\ mode = "unit"
    /\ board \in UnitBoards
    /\ pc = "call"
    /\ iter = 0
    /\ game_result = None
    /\ pre = board
    /\ ret = NoRet
    /\ panicked = FALSE
    /\ first_move = board.current_move
    /\ search_depth = 0
    /\ search_is_max = FALSE

UnitComputerMove ==
    /\ mode = "unit" /\ pc = "call"
    /\ board.current_move = Computer /\ ToMove(board, Computer)
    /\ \E r \in {computer_move(board)} :
       /\ pre' = board
       /\ ret' = [op |-> "computer_move", best_move |-> r.best_move, vals |-> r.vals]
       /\ board' = r.board
       /\ panicked' = r.panic
       /\ pc' = IF r.panic THEN "panic" ELSE "returned"
    /\ UNCHANGED <<mode, first_move, search_depth, search_is_max, iter, game_result>>

UnitComputerPlayerMove ==
    /\ mode = "unit" /\ pc = "call"
    /\ board.current_move = Player /\ ToMove(board, Player)
    /\ \E r \in {computer_player_move(board)} :
       /\ pre' = board
       /\ ret' = [op |-> "computer_player_move", best_move |-> r.best_move, vals |-> r.vals]
       /\ board' = r.board
       /\ panicked' = r.panic
       /\ pc' = IF r.panic THEN "panic" ELSE "returned"
    /\ UNCHANGED <<mode, first_move, search_depth, search_is_max, iter, game_result>>

\* analyse(&self): the board is borrowed immutably
UnitAnalyse ==
    /\ mode = "unit" /\ pc = "call"
    /\ pre' = board
    /\ ret' = [op |-> "analyse", res |-> analyse(board)]
    /\ pc' = "returned"
    /\ UNCHANGED <<mode, first_move, search_depth, search_is_max, board, iter, game_result, panicked>>

NextUnit == UnitComputerMove \/ UnitComputerPlayerMove \/ UnitAnalyse

SpecUnit == InitUnit /\ [][NextUnit]_vars

\* minimax(depth, is_max) called on the board as it is
UnitMinimax ==
    /\ mode = "unit" /\ pc = "call"
    /\ \E d \in 0..MaxDepth : \E m \in BOOLEAN :
       \E r \in {minimax(board, d, m)} :
          /\ pre' = board
          /\ ret' = [op |-> "minimax", depth |-> d, is_max |-> m, val |-> r.val]
          /\ board' = r.board
    /\ pc' = "returned"
    /\ UNCHANGED <<mode, first_move, search_depth, search_is_max, iter, game_result, panicked>>

\* minimax_player(depth, is_max) called on the board as it is
UnitMinimaxPlayer ==
    /\ mode = "unit" /\ pc = "call"
    /\ \E d \in 0..MaxDepth : \E m \in BOOLEAN :
       \E r \in {minimax_player(board, d, m)} :
          /\ pre' = board
          /\ ret' = [op |-> "minimax_player", depth |-> d, is_max |-> m, val |-> r.val]
          /\ board' = r.board
    /\ pc' = "returned"
    /\ UNCHANGED <<mode, first_move, search_depth, search_is_max, iter, game_result, panicked>>

NextMinimax == UnitMinimax \/ UnitMinimaxPlayer

\* the engine written for the player's side
NextMirror == UnitMinimaxPlayer \/ UnitComputerPlayerMove

\* minimax and computer_move on the same boards
NextScoring == UnitMinimax \/ UnitComputerMove

InitMinimax == InitUnit /\ Cardinality(FreeCells(board)) <= MaxSearchFree

SpecMinimax == InitMinimax /\ [][NextMinimax]_vars

SpecScoring == InitMinimax /\ [][NextScoring]_vars

SpecMirror == InitMinimax /\ [][NextMirror]_vars

\* analyse() on every grid a Board can hold, whoever is to move
AllBoards ==
    [field : [Idx -> [Idx -> Tile]], current_move : Move,
     computer_tile : {X}, player_tile : {O}]

InitAnalyse ==
    /\ mode = "unit"
    /\ board \in AllBoards
    /\ pc = "call"
    /\ iter = 0
    /\ game_result = None
    /\ pre = board
    /\ ret = NoRet
    /\ panicked = FALSE
    /\ first_move = board.current_move
    /\ search_depth = 0
    /\ search_is_max = FALSE

SpecAnalyse == InitAnalyse /\ [][UnitAnalyse]_vars

\* main and the direct calls together
InitMainUnit == InitMain \/ InitUnit

NextMainUnit == NextMain \/ NextUnit

SpecMainUnit == InitMainUnit /\ [][NextMainUnit]_vars

\* ---------------------------------------------------------------- the whole
Init == InitMain \/ InitTest \/ InitUnit

Next == NextMain \/ NextTest \/ NextUnit

Spec == Init /\ [][Next]_vars

\* ================================================================ properties
Lines == {{0, 1, 2}, {3, 4, 5}, {6, 7, 8}, {0, 3, 6}, {1, 4, 7}, {2, 5, 8},
          {0, 4, 8}, {2, 4, 6}}

CellOf(pos) == 3 * pos[1] + pos[2]

\* some line holds three marks `tile`
LineOf(b, tile) == \E l \in Lines : \A k \in l : FieldAt(b, k) = tile

AnyLine(b) == LineOf(b, X) \/ LineOf(b, O)

\* the Free cells that are the third cell of a line holding two marks `tile`
CompletingCells(b, tile) ==
    {k \in FreeCells(b) :
        \E l \in Lines : k \in l /\ \A m \in l \ {k} : FieldAt(b, m) = tile}

\* `op` was called on `pre`, has returned normally, and nothing ran since
JustReturned(op) == ret.op = op /\ ~panicked /\ pc \in {"returned", "analyse"}

FieldOf(rows) == [i \in Idx |-> [j \in Idx |-> rows[i + 1][j + 1]]]

\* ---------------------------------------------------------------- C1
\* C1: in a game run by main, whoever starts and whatever legal cells the
\* human enters, the human never completes a line and analyse() never yields
\* Win(Player): a finished game is Win(Computer) or Draw.
C1_NeverPlayerWin ==
    mode = "main" =>
        /\ game_result # Win(Player)
        /\ ~LineOf(board, board.player_tile)
        /\ pc = "done" => game_result \in {Win(Computer), Draw}

C1_ComputerWon ==
    /\ mode = "main" /\ pc = "done"
    /\ game_result = Win(Computer)
    /\ LineOf(board, board.computer_tile)

\* ---------------------------------------------------------------- C2
\* C2: in each of the 18 self-play games of pc_vs_pc_1move_by_player and
\* pc_vs_pc_1move_by_computer no line is ever completed, no call panics, the
\* eight turns fill the grid and the final analyse() is Draw.
C2_SelfPlayDraws ==
    mode = "test" =>
        /\ ~AnyLine(board)
        /\ ~panicked
        /\ Cardinality(FreeCells(board)) = 8 - iter
        /\ pc = "done" => game_result = Draw

C2_GameDrawn ==
    /\ mode = "test" /\ pc = "done" /\ iter = 8
    /\ game_result = Draw
    /\ FreeCells(board) = {}

\* ---------------------------------------------------------------- C3
\* [[A,A,Free],[B,B,Free],[Free,Free,Free]] with A the computer
C3_ExampleField ==
    FieldOf(<<<<X, X, Free>>, <<O, O, Free>>, <<Free, Free, Free>>>>)

\* C3: computer_move called on a board without a completed line where some
\* Free cell completes a line of computer tiles puts the computer tile on
\* such a cell, whether or not the player threatens too; on the example
\* board it plays (0,2).
C3_ImmediateWinTaken ==
    (/\ JustReturned("computer_move")
     /\ pre.current_move = Computer
     /\ ~AnyLine(pre)
     /\ CompletingCells(pre, pre.computer_tile) # {})
    => /\ CellOf(ret.best_move) \in CompletingCells(pre, pre.computer_tile)
       /\ FieldAt(board, CellOf(ret.best_move)) = pre.computer_tile
       /\ LineOf(board, pre.computer_tile)
       /\ pre.field = C3_ExampleField => ret.best_move = <<0, 2>>

C3_ExampleWon ==
    /\ JustReturned("computer_move")
    /\ pre.current_move = Computer
    /\ pre.field = C3_ExampleField
    /\ CompletingCells(pre, pre.player_tile) # {}
    /\ board.field[0][2] = X

\* ---------------------------------------------------------------- C4
\* the board of test_block_move
C4_TestBlockField ==
    FieldOf(<<<<O, Free, X>>, <<Free, X, O>>, <<O, O, X>>>>)

\* the situation of the claim: no completed line, the player has two in a
\* line with a Free third cell, the computer has no winning cell
C4_BlockNeeded ==
    /\ JustReturned("computer_move")
    /\ pre.current_move = Computer
    /\ ~AnyLine(pre)
    /\ CompletingCells(pre, pre.player_tile) # {}
    /\ CompletingCells(pre, pre.computer_tile) = {}

\* C4 as stated: whenever a block is needed computer_move plays a
\* blocking cell.
C4_ForcedBlock ==
    C4_BlockNeeded => CellOf(ret.best_move) \in CompletingCells(pre, pre.player_tile)

\* C4 as amended: when a block is needed and the player threatens exactly
\* one cell, computer_move plays that cell; when the player threatens two
\* or more cells every branch scores -9 and computer_move plays the first
\* Free cell of the row-major scan, blocking or not.
C4_ForcedBlockSingleThreat ==
    C4_BlockNeeded =>
        IF Cardinality(CompletingCells(pre, pre.player_tile)) = 1
        THEN CompletingCells(pre, pre.player_tile) = {CellOf(ret.best_move)}
        ELSE /\ \A i \in 1..Len(ret.vals) : ret.vals[i][2] = -9
             /\ \A k \in FreeCells(pre) : CellOf(ret.best_move) <= k

C4_TestBlockPlayed ==
    /\ C4_BlockNeeded
    /\ pre.field = C4_TestBlockField
    /\ ret.best_move = <<1, 0>>
    /\ board.field[1][0] = X

\* ---------------------------------------------------------------- C5
\* C5: when computer_move returns, the grid differs from the grid at the
\* call in exactly the chosen cell, which was Free and holds computer_tile;
\* current_move, computer_tile and player_tile are as at the call.
C5_BoardRevert ==
    JustReturned("computer_move") =>
        /\ FieldAt(pre, CellOf(ret.best_move)) = Free
        /\ FieldAt(board, CellOf(ret.best_move)) = pre.computer_tile
        /\ \A k \in Cells \ {CellOf(ret.best_move)} : FieldAt(board, k) = FieldAt(pre, k)
        /\ board.current_move = pre.current_move
        /\ board.computer_tile = pre.computer_tile
        /\ board.player_tile = pre.player_tile

\* a call that searched at least three plies deep
C5_Searched ==
    /\ JustReturned("computer_move")
    /\ Cardinality(FreeCells(pre)) >= 4
    /\ ~AnyLine(pre)
    /\ \E i \in 1..Len(ret.vals) : ret.vals[i][2] \in {7, -7}

\* ---------------------------------------------------------------- C6
BestVal(vals) == CHOOSE v \in {vals[i][2] : i \in 1..Len(vals)} :
                    \A i \in 1..Len(vals) : vals[i][2] <= v

\* C6: computer_move scores the Free cells in row-major order and plays the
\* first of them whose score is the largest score.
C6_TieBreak ==
    JustReturned("computer_move") =>
        /\ {ret.vals[i][1] : i \in 1..Len(ret.vals)} = FreeCells(pre)
        /\ \A i, j \in 1..Len(ret.vals) : i < j => ret.vals[i][1] < ret.vals[j][1]
        /\ \E i \in 1..Len(ret.vals) :
              /\ ret.vals[i][1] = CellOf(ret.best_move)
              /\ ret.vals[i][2] = BestVal(ret.vals)
              /\ \A j \in 1..(i - 1) : ret.vals[j][2] < BestVal(ret.vals)

\* a call where a later cell ties with the chosen one
C6_Tie ==
    /\ JustReturned("computer_move")
    /\ ~AnyLine(pre)
    /\ \E i, j \in 1..Len(ret.vals) :
          /\ i < j
          /\ ret.vals[i][1] = CellOf(ret.best_move)
          /\ ret.vals[j][2] = ret.vals[i][2]

\* ---------------------------------------------------------------- C7
\* C7: on the empty grid with the computer to move first, each of the nine
\* branches of computer_move scores 0 and the computer tile goes to (0,0).
C7_EmptyGridFirstMove ==
    (/\ mode = "main"
     /\ ret.op = "computer_move"
     /\ pre.field = EmptyField
     /\ pre.current_move = Computer)
    => /\ Len(ret.vals) = 9
       /\ \A i \in 1..9 : ret.vals[i] = <<i - 1, 0>>
       /\ ret.best_move = <<0, 0>>
       /\ board.field[0][0] = pre.computer_tile
       /\ \A k \in Cells \ {0} : FieldAt(board, k) = Free

C7_FirstMoveMade ==
    /\ mode = "main" /\ pc = "analyse"
    /\ ret.op = "computer_move"
    /\ pre = NewBoard(Computer)
    /\ board.field[0][0] = X

\* ---------------------------------------------------------------- C8
\* C8: computer_move and computer_player_move panic exactly when the board
\* they are called on has no Free cell, and then leave the board as it was
\* and do not return; main never panics, and whenever it is about to call
\* computer_move the board has a Free cell and no completed line.
C8_SearchPrecondition ==
    /\ (mode = "unit" /\ ret.op \in {"computer_move", "computer_player_move"}) =>
          /\ panicked <=> FreeCells(pre) = {}
          /\ panicked => board = pre /\ pc = "panic"
          /\ ~panicked => pc = "returned"
    /\ mode = "main" =>
          /\ ~panicked
          /\ pc # "panic"
          /\ (pc = "move" /\ board.current_move = Computer) =>
                FreeCells(board) # {} /\ ~AnyLine(board)

C8_Panicked ==
    /\ mode = "unit" /\ pc = "panic" /\ panicked
    /\ ret.op = "computer_move"
    /\ FreeCells(pre) = {}
    /\ board = pre

\* ---------------------------------------------------------------- C9
\* C9: check_move((row, col)) is Ok((row, col)) exactly when row <= 2,
\* col <= 2 and the cell is Free; out of range it is the bounds error, in
\* range and occupied it is 'Choose free tile!'.  After a rejection the
\* board is as before and main still waits for the human's move; an
\* accepted move changes only the chosen cell, from Free to player_tile.
C9_HumanMoveLegality ==
    ret.op = "check_move" =>
        LET row == ret.pos[1]
            col == ret.pos[2]
            in_range == row <= 2 /\ col <= 2
        IN  /\ ret.res = Ok(ret.pos) <=> (in_range /\ pre.field[row][col] = Free)
            /\ ~in_range => ret.res = Err(ErrBounds)
            /\ (in_range /\ pre.field[row][col] # Free) => ret.res = Err(ErrFree)
            /\ ret.res[1] = "Err" =>
                  /\ board = pre
                  /\ pc = "move"
                  /\ board.current_move = Player
            /\ ret.res[1] = "Ok" =>
                  /\ pre.field[row][col] = Free
                  /\ board.field = [pre.field EXCEPT ![row][col] = pre.player_tile]

C9_OccupiedRejected ==
    /\ mode = "main" /\ pc = "move"
    /\ ret.op = "check_move"
    /\ ret.res = Err(ErrFree)
    /\ FieldAt(board, CellOf(ret.pos)) = board.computer_tile

\* ---------------------------------------------------------------- C10
\* C10 as stated: analyse() modifies nothing and boards with identical grids
\* yield the same outcome value.
C10_GridDeterminesOutcome ==
    (mode = "unit" /\ ret.op = "analyse") =>
        /\ board = pre
        /\ \A m \in Move : analyse([pre EXCEPT !.current_move = m]) = ret.res

\* C10 as amended: analyse() modifies nothing; boards with identical grids
\* yield the same kind of outcome (Win, Draw or none), and a Win names the
\* current_move of the board it is asked of, so the outcome is a function of
\* the grid together with current_move.
C10_GridAndTurnDetermineOutcome ==
    (mode = "unit" /\ ret.op = "analyse") =>
        /\ board = pre
        /\ \A m \in Move :
              LET a == analyse([pre EXCEPT !.current_move = m]) IN
              /\ a[1] = ret.res[1]
              /\ a[1] = "Win" => a = Win(m)

C10_LineAnalysed ==
    /\ mode = "unit" /\ pc = "returned"
    /\ ret.op = "analyse"
    /\ ret.res = Win(Player)
    /\ LineOf(pre, pre.computer_tile)
    /\ ~LineOf(pre, pre.player_tile)

\* ---------------------------------------------------------------- C11
\* One step of the driver, as the game-level state machine allows it.
C11_Step ==
    /\ pc = "done" => UNCHANGED <<board, pc, game_result>>
    /\ pc = "move" =>
          /\ board'.current_move = board.current_move
          /\ game_result' = game_result
          /\ IF board'.field = board.field
             THEN pc' = "move"
             ELSE /\ pc' = "analyse"
                  /\ Cardinality({k \in Cells : FieldAt(board', k) # FieldAt(board, k)}) = 1
                  /\ \A k \in Cells :
                        FieldAt(board', k) # FieldAt(board, k) => FieldAt(board, k) = Free
    /\ pc = "analyse" =>
          /\ board'.field = board.field
          /\ game_result' = analyse(board)
          /\ IF game_result' = None
             THEN pc' = "move" /\ board'.current_move # board.current_move
             ELSE pc' = "done" /\ board' = board

\* C11: the game starts in progress; a move is applied only while the game is
\* in progress and is followed by exactly one analyse() before any
\* change_player; after Win or Draw the grid, the turn and the result never
\* change again; after None exactly one change_player precedes the next move.
C11_DriverStateMachine ==
    /\ [](mode = "main" =>
            /\ pc \in {"move", "analyse", "done"}
            /\ pc \in {"move", "analyse"} => game_result = None
            /\ pc = "done" => game_result \in {Win(Player), Win(Computer), Draw})
    /\ [][mode = "main" => C11_Step]_vars

C11_GameOverAfterToggles ==
    /\ mode = "main" /\ pc = "done"
    /\ game_result = Draw
    /\ board.current_move = first_move
    /\ ~has_free_tiles(board)

\* ---------------------------------------------------------------- C12
TileOf(b, side) == IF side = Computer THEN b.computer_tile ELSE b.player_tile

\* the lines of b that hold three identical marks
CompleteLines(b) ==
    {l \in Lines : \E tile \in {X, O} : \A k \in l : FieldAt(b, k) = tile}

\* wherever analyse() is evaluated on b: a Win names the side whose tile
\* fills every completed line
WinnerOwnsLines(b) ==
    \A s \in Move :
        analyse(b) = Win(s) =>
            /\ CompleteLines(b) # {}
            /\ \A l \in CompleteLines(b) : \A k \in l : FieldAt(b, k) = TileOf(b, s)

\* C12: whenever the driver evaluates analyse(), and whenever a search that
\* the driver's computer_move started does, current_move is the side whose
\* tile was placed last, and a Win names the side whose tile fills the line.
C12_WinnerAttribution ==
    /\ (mode = "main" /\ pc = "analyse") =>
          /\ \E k \in Cells :
                /\ FieldAt(pre, k) = Free
                /\ board = make_move(pre, <<Row(k), Col(k)>>, TileOf(pre, pre.current_move))
          /\ WinnerOwnsLines(board)
    /\ (mode = "main" /\ pc = "done") =>
          /\ game_result = analyse(board)
          /\ WinnerOwnsLines(board)
    /\ mode = "search" =>
          /\ board.current_move = (IF search_is_max THEN Player ELSE Computer)
          /\ FieldAt(board, CellOf(ret.pos)) = TileOf(board, board.current_move)
          /\ WinnerOwnsLines(board)

C12_WinInsideSearch ==
    /\ mode = "search"
    /\ analyse(board) = Win(Player)
    /\ LineOf(board, board.player_tile)
    /\ search_depth >= 3

\* ---------------------------------------------------------------- C13
\* C13: analyse() returns Win(current_move) exactly when some row, column or
\* diagonal holds three identical marks, Draw exactly when none does and no
\* cell is Free, and None exactly when none does and some cell is Free.
C13_AnalyseClassification ==
    (mode = "unit" /\ ret.op = "analyse") =>
        /\ ret.res \in {Win(pre.current_move), Draw, None}
        /\ ret.res = Win(pre.current_move) <=> CompleteLines(pre) # {}
        /\ ret.res = Draw <=> (CompleteLines(pre) = {} /\ FreeCells(pre) = {})
        /\ ret.res = None <=> (CompleteLines(pre) = {} /\ FreeCells(pre) # {})

C13_LineOnFullGrid ==
    /\ mode = "unit" /\ pc = "returned"
    /\ ret.op = "analyse"
    /\ FreeCells(pre) = {}
    /\ CompleteLines(pre) = {{2, 4, 6}}
    /\ ret.res = Win(pre.current_move)

\* ---------------------------------------------------------------- C14
\* C14: every call of minimax and of minimax_player returns with the grid and
\* current_move (and the two tiles) as they were at entry, whether it returned
\* at once for a win, a loss or a full grid, or searched.
C14_SearchRestoresBoard ==
    (mode = "unit" /\ ret.op \in {"minimax", "minimax_player"}) => board = pre

C14_DeepSearchReturned ==
    /\ mode = "unit" /\ pc = "returned"
    /\ ret.op = "minimax_player"
    /\ ~AnyLine(pre)
    /\ Cardinality(FreeCells(pre)) = 4
    /\ ret.val # 0
    /\ board = pre

\* ---------------------------------------------------------------- C15
Put(b, k, tile) == [b EXCEPT !.field[Row(k)][Col(k)] = tile]

RECURSIVE ComputerWinsIn(_, _)
\* With the computer to move on b, the computer can complete a line within n
\* plies (n odd) whatever the player answers.
ComputerWinsIn(b, n) ==
    \E k \in FreeCells(b) :
        LET c == Put(b, k, b.computer_tile) IN
        \/ LineOf(c, c.computer_tile)
        \/ /\ n >= 3
           /\ FreeCells(c) # {}
           /\ \A m \in FreeCells(c) :
                 LET p == Put(c, m, c.player_tile) IN
                 /\ ~LineOf(p, p.player_tile)
                 /\ ComputerWinsIn(p, n - 2)

RECURSIVE PlayerWinsIn(_, _)
\* With the player to move on c, the player can complete a line within n
\* plies (n odd) whatever the computer answers.
PlayerWinsIn(c, n) ==
    \E m \in FreeCells(c) :
        LET p == Put(c, m, c.player_tile) IN
        \/ LineOf(p, p.player_tile)
        \/ /\ n >= 3
           /\ FreeCells(p) # {}
           /\ \A k \in FreeCells(p) :
                 LET d == Put(p, k, p.computer_tile) IN
                 /\ ~LineOf(d, d.computer_tile)
                 /\ PlayerWinsIn(d, n - 2)

\* The numbers of plies, the computer's mark on k counted, within which the
\* computer forces a win by playing k on b.
WinPlies(b, k) ==
    LET c == Put(b, k, b.computer_tile) IN
    {n \in {1, 3, 5, 7, 9} :
        \/ LineOf(c, c.computer_tile)
        \/ /\ n >= 3
           /\ FreeCells(c) # {}
           /\ \A m \in FreeCells(c) :
                 LET p == Put(c, m, c.player_tile) IN
                 /\ ~LineOf(p, p.player_tile)
                 /\ ComputerWinsIn(p, n - 2)}

\* The numbers of plies after the computer's mark on k within which the
\* player forces a win.
LossPlies(b, k) ==
    LET c == Put(b, k, b.computer_tile) IN
    {n \in {1, 3, 5, 7} : ~LineOf(c, c.computer_tile) /\ PlayerWinsIn(c, n)}

Least(S) == CHOOSE n \in S : \A m \in S : n <= m

\* C15: minimax started as computer_move starts it (current_move names the
\* side that moved last) returns 10 - depth where the computer has a line,
\* -10 + depth where the player has one, 0 on a full grid without a line; and
\* computer_move picks a cell with the quickest forced win when there is one,
\* and a cell with the slowest forced loss when every cell loses.
C15_DepthAdjustedScoring ==
    /\ (mode = "unit" /\ ret.op = "minimax") =>
          /\ (LineOf(pre, pre.computer_tile) /\ ~LineOf(pre, pre.player_tile)
                /\ pre.current_move = Computer) => ret.val = 10 - ret.depth
          /\ (LineOf(pre, pre.player_tile) /\ ~LineOf(pre, pre.computer_tile)
                /\ pre.current_move = Player) => ret.val = -10 + ret.depth
          /\ (~AnyLine(pre) /\ FreeCells(pre) = {}) => ret.val = 0
    /\ (mode = "unit" /\ JustReturned("computer_move") /\ ~AnyLine(pre)) =>
          LET best == CellOf(ret.best_move)
              winning == {k \in FreeCells(pre) : WinPlies(pre, k) # {}}
              losing == {k \in FreeCells(pre) : LossPlies(pre, k) # {}}
          IN  /\ winning # {} =>
                    /\ best \in winning
                    /\ \A k \in winning :
                          Least(WinPlies(pre, best)) <= Least(WinPlies(pre, k))
              /\ losing = FreeCells(pre) =>
                    \A k \in losing :
                        Least(LossPlies(pre, best)) >= Least(LossPlies(pre, k))

\* the computer passed over an earlier cell that wins later (or not at all by
\* force in one ply) for a cell that wins at once
C15_QuickerWinPreferred ==
    /\ mode = "unit" /\ JustReturned("computer_move") /\ ~AnyLine(pre)
    /\ Cardinality(FreeCells(pre)) = 4
    /\ \E k \in FreeCells(pre) :
          /\ k < CellOf(ret.best_move)
          /\ WinPlies(pre, k) # {}
          /\ Least(WinPlies(pre, k)) = 3
    /\ Least(WinPlies(pre, CellOf(ret.best_move))) = 1

\* ---------------------------------------------------------------- C16
\* b with the two sides exchanged: the tiles change owner and the turn passes
\* to the other side
Swap(b) ==
    [b EXCEPT !.computer_tile = b.player_tile,
              !.player_tile = b.computer_tile,
              !.current_move = IF @ = Player THEN Computer ELSE Player]

\* C16: computer_player_move and minimax_player do on a board what
\* computer_move and minimax do on the board with the sides exchanged: the
\* same panic, chosen cell, branch scores and returned score, and the same
\* board left behind up to the exchange.
C16_MirrorEngines ==
    /\ (mode = "unit" /\ ret.op = "computer_player_move") =>
          LET r == computer_move(Swap(pre)) IN
          /\ r.panic = panicked
          /\ r.best_move = ret.best_move
          /\ r.vals = ret.vals
          /\ r.board = Swap(board)
    /\ (mode = "unit" /\ ret.op = "minimax_player") =>
          LET r == minimax(Swap(pre), ret.depth, ret.is_max) IN
          /\ r.val = ret.val
          /\ r.board = Swap(board)

C16_MirroredChoice ==
    /\ mode = "unit" /\ JustReturned("computer_player_move")
    /\ Cardinality(FreeCells(pre)) = 4
    /\ ret.best_move # <<0, 0>>
    /\ \E i \in 1..Len(ret.vals) : ret.vals[i][2] < 0
    /\ \E i \in 1..Len(ret.vals) : ret.vals[i][2] > 0
    /\ computer_move(Swap(pre)).best_move = ret.best_move

\* ---------------------------------------------------------------- C17
\* C17: in every state of a game of main, and at every position a search
\* started there passes through, the grid holds only Free, computer_tile and
\* player_tile, the two sides' numbers of marks differ by at most 1, and the
\* side that was given the first turn never has fewer marks than the other.
C17_TurnAlternation ==
    mode \in {"main", "search"} =>
        LET first == Count(board, TileOf(board, first_move))
            second == Count(board, TileOf(board, IF first_move = Player THEN Computer
                                                                           ELSE Player))
        IN  /\ board.computer_tile # board.player_tile
            /\ \A k \in Cells :
                  FieldAt(board, k) \in {Free, board.computer_tile, board.player_tile}
            /\ first - second \in {0, 1}
            /\ first + second + Cardinality(FreeCells(board)) = 9

C17_FullGridInsideSearch ==
    /\ mode = "search"
    /\ first_move = Player
    /\ FreeCells(board) = {}
    /\ Count(board, board.player_tile) = 5
    /\ Count(board, board.computer_tile) = 4

\* ---------------------------------------------------------------- C18
\* C18: a game of main in which the human keeps entering legal cells ends
\* with Win or Draw (a behaviour either is such a game or follows a search
\* downwards); no game sees more than 9 marks or more than 5 of the side that
\* started, no computer_move panics, and inside a search depth is the number
\* of marks placed below the first, less than the number of cells that were
\* Free when computer_move was called, so at most 8.
C18_Termination ==
    /\ <>(mode = "search" \/ pc = "done")
    /\ [](mode \in {"main", "search"} =>
            /\ pc # "panic" /\ ~panicked
            /\ pc = "done" => game_result \in {Win(Player), Win(Computer), Draw}
            /\ 9 - Cardinality(FreeCells(board)) <= 9
            /\ Count(board, TileOf(board, first_move)) <= 5
            /\ mode = "search" =>
                  /\ search_depth =
                        Cardinality(FreeCells(pre)) - Cardinality(FreeCells(board)) - 1
                  /\ search_depth < Cardinality(FreeCells(pre))
                  /\ search_depth <= 8)

C18_NineMovesPlayed ==
    /\ mode = "main" /\ pc = "done"
    /\ FreeCells(board) = {}
    /\ Count(board, TileOf(board, first_move)) = 5
    /\ game_result = Draw

\* ---------------------------------------------------------------- C19
\* C19: when computer_move (or its mirror) is called on a board with a Free
\* cell, it scores one branch per Free cell, every branch score lies in
\* -10..10, best_move is a cell that was Free at the call ((0,0) only when
\* (0,0) was Free), and the final make_move changes that cell alone, from
\* Free to the mover's tile; a human move accepted in main also targets a
\* cell that was Free.
C19_NoOverwrite ==
    /\ (ret.op \in {"computer_move", "computer_player_move"} /\ ~panicked) =>
          /\ Len(ret.vals) = Cardinality(FreeCells(pre))
          /\ Len(ret.vals) >= 1
          /\ \A n \in 1..Len(ret.vals) :
                /\ ret.vals[n][2] \in -10..10
                /\ FieldAt(pre, ret.vals[n][1]) = Free
          /\ FieldAt(pre, CellOf(ret.best_move)) = Free
          /\ ret.best_move = <<0, 0>> => pre.field[0][0] = Free
          /\ board.field =
                [pre.field EXCEPT ![ret.best_move[1]][ret.best_move[2]] =
                    IF ret.op = "computer_move" THEN pre.computer_tile
                                                ELSE pre.player_tile]
    /\ (mode = "main" /\ ret.op = "check_move" /\ ret.res[1] = "Ok") =>
          /\ FieldAt(pre, CellOf(ret.pos)) = Free
          /\ Count(board, Free) = Count(pre, Free) - 1

\* main's computer_move returned with (0,0) occupied at the call: the
\* default best_move was replaced by a Free cell.
C19_DefaultReplaced ==
    /\ mode = "main" /\ pc = "analyse"
    /\ ret.op = "computer_move" /\ ~panicked
    /\ pre.field[0][0] # Free
    /\ ret.best_move # <<0, 0>>
    /\ FieldAt(pre, CellOf(ret.best_move)) = Free
    /\ FieldAt(board, CellOf(ret.best_move)) = board.computer_tile

\* ---------------------------------------------------------------- C20
\* C20 as stated: in every state of a game of main and of the searches it
\* starts, at most one of the 8 lines is complete.
C20_AtMostOneLine ==
    mode \in {"main", "search"} => Cardinality(CompleteLines(board)) <= 1

\* C20: in every state of a game of main and of the searches it starts, at
\* most two lines are complete (at most one in the driver's own states, none
\* when a move is awaited); every complete line holds the tile of the side
\* that placed the last mark and passes through that mark, so whichever line
\* analyse() finds first, its result is Win(current_move); without a complete
\* line it is Draw on a full grid and None otherwise.
C20_LinesShareLastMark ==
    mode \in {"main", "search"} =>
        LET cl == CompleteLines(board) IN
        /\ Cardinality(cl) <= 2
        /\ mode = "main" => Cardinality(cl) <= 1
        /\ (mode = "main" /\ pc = "move") => cl = {}
        /\ cl # {} =>
              /\ \A l \in cl : \A k \in l :
                    FieldAt(board, k) = TileOf(board, board.current_move)
              /\ \E k \in Cells :
                    /\ \A l \in cl : k \in l
                    /\ FieldAt(pre, k) = Free \/ mode = "search"
                    /\ mode = "search" => k = CellOf(ret.pos)
        /\ analyse(board) = (IF cl # {} THEN Win(board.current_move)
                             ELSE IF FreeCells(board) = {} THEN Draw
                             ELSE None)

\* inside a search one mark completed a row and a column at once
C20_TwoLinesAtOnce ==
    /\ mode = "search"
    /\ Cardinality(CompleteLines(board)) = 2
    /\ \A l \in CompleteLines(board) : CellOf(ret.pos) \in l
    /\ analyse(board) = Win(board.current_move)

====
